---- MODULE Spec2Model ----
(***************************************************************************)
(* Bayesian linear regression estimators of mlpack:                        *)
(*   BayesianLinearRegression  (methods/bayesian_linear_regression)        *)
(*   BayesianRidge             (methods/bayesian_ridge)                    *)
(*                                                                         *)
(* Training data are small concrete integer matrices.  The preprocessing   *)
(* parameters (row means, row standard deviations, response mean) are      *)
(* computed exactly as rationals.  The quantities of the evidence          *)
(* maximization loop (alpha, beta, gamma, omega, matCovariance) are kept   *)
(* as terms that record which preprocessed data and which version of the   *)
(* hyperparameter pair they were computed from; the stopping criterion     *)
(* crit is a double whose value after an iteration is chosen by the        *)
(* environment.  eig_sym is an external primitive whose success flag is    *)
(* chosen by the environment.                                              *)
(***************************************************************************)
EXTENDS Integers, Sequences, FiniteSets, TLC

VARIABLES
  est,      \* est[o]: the members of estimator object o
  frame,    \* the Train call in progress: its locals and position
  ret,      \* how the last completed call ended
  shadow,   \* the same Train call run on a freshly constructed estimator
  trained,  \* trained[o]: o holds the result of a Train that returned its RMSE
  readers   \* readers[r]: the Predict call thread r is in, and its locals

vars == <<est, frame, ret, shadow, trained, readers>>

----------------------------------------------------------------------------
(* Bounds of the model *)

MaxIter == 2         \* largest small nIterMax given to a constructor
VerCap == 2          \* hyperparameter versions are counted up to VerCap
MaxQueryRows == 2    \* rows of a query matrix passed to Predict: 0..MaxQueryRows
MaxQueryCols == 2    \* columns (points) of a query matrix

(* Program constants *)

UShortMod == 65536   \* unsigned short i: counter arithmetic is modulo 2^16
NIterMaxBR == 50     \* BayesianRidge::Train: unsigned short nIterMax = 50
TolBR == 1           \* BayesianRidge::Train: double tol = 1e-3, in thousandths
CritInit == 1000     \* double crit = 1.0, in thousandths
AlphaInitDen == 1000000  \* alpha = 1e-6
BetaInitNum == 10    \* beta = 1 / (var(t) * 0.1)

\* the estimator objects: B is only used as the other side of a copy or move
Objects == {"A", "B"}

NaN == -1            \* crit is an absolute value: -1 stands for NaN
InfCrit == 2147483647  \* crit = inf: above every tol

----------------------------------------------------------------------------
(* Exact rationals *)

RECURSIVE GCD(_, _)
GCD(a, b) == IF b = 0 THEN a ELSE GCD(b, a % b)

Abs(a) == IF a < 0 THEN -a ELSE a

Rat(num, den) ==
  LET g == GCD(Abs(num), Abs(den))
      s == IF den < 0 THEN -1 ELSE 1
  IN [kind |-> "rat", num |-> s * (num \div g), den |-> s * (den \div g)]

Zero == Rat(0, 1)
One == Rat(1, 1)
Inf == [kind |-> "inf"]
Indeterminate == [kind |-> "indeterminate"]   \* a double that was never assigned
NotANumber == [kind |-> "nan"]                \* 0 / 0, inf - inf, inf * 0

\* sqrt of a non-negative rational, exact when it is a perfect square
SqrtRat(r) ==
  IF \E a \in 0..r.num, b \in 1..r.den : a * a = r.num /\ b * b = r.den
  THEN LET a == CHOOSE a \in 0..r.num : a * a = r.num
           b == CHOOSE b \in 1..r.den : b * b = r.den
       IN Rat(a, b)
  ELSE [kind |-> "sqrt", num |-> r.num, den |-> r.den]

----------------------------------------------------------------------------
(* Training data: X is p x n (one row per feature), y has length n *)

Data == <<
  [X |-> << <<1, 3>> >>,                 y |-> <<2, 4>>],
  [X |-> << <<1, 2, 4>>, <<0, 1, 0>> >>, y |-> <<1, 0, 2>>],
  [X |-> << <<1, 2, 3>>, <<2, 4, 6>> >>, y |-> <<1, 2, 4>>],
  [X |-> << <<1, 1, 1>>, <<0, 1, 2>> >>, y |-> <<0, 1, 3>>],
  [X |-> << <<2>> >>,                    y |-> <<3>>]
>>

DataIds == 1..Len(Data)

n_rows(d) == Len(Data[d].X)
n_cols(d) == Len(Data[d].y)

RECURSIVE SumSeq(_)
SumSeq(s) == IF s = <<>> THEN 0 ELSE Head(s) + SumSeq(Tail(s))

SumSq(s) == SumSeq([j \in 1..Len(s) |-> s[j] * s[j]])

\* arma::mean of a vector
mean(s) == Rat(SumSeq(s), Len(s))

\* arma::var(s, norm_type): norm_type 0 divides by n - 1, norm_type 1 by n;
\* fewer than two elements give 0
var(s, norm_type) ==
  LET n == Len(s)
      num == n * SumSq(s) - SumSeq(s) * SumSeq(s)
  IN IF n < 2 THEN Zero
     ELSE IF norm_type = 0 THEN Rat(num, n * (n - 1)) ELSE Rat(num, n * n)

\* A standard deviation that always divides by n, whatever norm_type is
\* asked for.  C19 does not hold of it.
stddevPopulation(s, norm_type) == SqrtRat(var(s, 1))

\* arma::stddev(s, norm_type)
stddev(s, norm_type) == SqrtRat(var(s, norm_type))

----------------------------------------------------------------------------
(* The preprocessed matrix, up to a positive factor per row: centering     *)
(* subtracts the row mean (here n * x - sum), scaling by a nonzero         *)
(* standard deviation does not change the rank.                            *)

PhiInt(d, center) ==
  LET X == Data[d].X
      n == n_cols(d)
  IN [k \in 1..Len(X) |->
        [j \in 1..n |-> IF center THEN n * X[k][j] - SumSeq(X[k]) ELSE X[k][j]]]

\* phi * phi.t()
Gram(M) ==
  [a \in 1..Len(M) |->
     [b \in 1..Len(M) |-> SumSeq([j \in 1..Len(M[a]) |-> M[a][j] * M[b][j]])]]

Det(G) ==
  IF Len(G) = 1 THEN G[1][1]
  ELSE G[1][1] * G[2][2] - G[1][2] * G[2][1]

HasZeroRow(M) == \E k \in 1..Len(M) : \A j \in 1..Len(M[k]) : M[k][j] = 0

\* The values the test eigval[0] == 0 can take on a finite Gram matrix:
\* a zero row makes the smallest eigenvalue exactly 0; for other singular
\* matrices the computed eigenvalue is 0 or a rounding residue; a regular
\* matrix has a positive smallest eigenvalue.
SmallestEigIsZero(d, center) ==
  LET M == PhiInt(d, center)
  IN IF HasZeroRow(M) THEN {TRUE}
     ELSE IF Det(Gram(M)) = 0 THEN BOOLEAN
     ELSE {FALSE}

----------------------------------------------------------------------------
(* Values of the loop quantities.  A term names the preprocessed data      *)
(* (src: data set and the two flags), the version of the (alpha, beta)     *)
(* pair it is or was computed from, and its number of rows.                *)

Src(d, e) == [d |-> d, c |-> e.centerData, s |-> e.scaleData]

Sym(kind, src, ver, dim) == [kind |-> kind, src |-> src, ver |-> ver, dim |-> dim]

EmptyVec == [kind |-> "empty", dim |-> 0]    \* a default-constructed arma object

Min(a, b) == IF a < b THEN a ELSE b

\* version of a hyperparameter value: the initial values are version 0
Ver(x) == IF x.kind \in {"alpha", "beta"} THEN x.ver ELSE 0

----------------------------------------------------------------------------
(* Construction *)

NotConstructed == [live |-> FALSE]

\* BayesianLinearRegression(centerData, scaleData, nIterMax, tol): the four
\* configuration members are set, nothing is validated, nothing else is
\* initialized.
BayesianLinearRegression(centerData, scaleData, nIterMax, tol) ==
  [live |-> TRUE, cls |-> "BLR",
   centerData |-> centerData, scaleData |-> scaleData,
   nIterMax |-> nIterMax, tol |-> tol,
   dataOffset |-> <<>>, dataScale |-> <<>>, responsesOffset |-> Indeterminate,
   alpha |-> Indeterminate, beta |-> Indeterminate, gamma |-> Indeterminate,
   omega |-> EmptyVec, matCovariance |-> EmptyVec]

\* BayesianRidge(fitIntercept, normalize); fitIntercept is kept in centerData
\* and normalize in scaleData.  nIterMax and tol are locals of Train.
BayesianRidge(fitIntercept, normalize) ==
  [live |-> TRUE, cls |-> "BR",
   centerData |-> fitIntercept, scaleData |-> normalize,
   dataOffset |-> <<>>, dataScale |-> <<>>, responsesOffset |-> Indeterminate,
   alpha |-> Indeterminate, beta |-> Indeterminate, gamma |-> Indeterminate,
   omega |-> EmptyVec, matCovariance |-> EmptyVec]

\* a newly constructed estimator with the configuration of e
FreshOf(e) ==
  IF e.cls = "BLR"
  THEN BayesianLinearRegression(e.centerData, e.scaleData, e.nIterMax, e.tol)
  ELSE BayesianRidge(e.centerData, e.scaleData)

\* the fitted members
Fitted(e) ==
  [dataOffset |-> e.dataOffset, dataScale |-> e.dataScale,
   responsesOffset |-> e.responsesOffset,
   alpha |-> e.alpha, beta |-> e.beta, gamma |-> e.gamma,
   omega |-> e.omega, matCovariance |-> e.matCovariance]

----------------------------------------------------------------------------
(* Preprocessing *)

\* A preprocessing step without the neutral forms: with a flag off it keeps
\* the offsets and scales the estimator already holds.  C5 does not hold
\* of it.
CenterScaleDataKeepsOld(e, d) ==
  LET X == Data[d].X
      p == n_rows(d)
  IN [e EXCEPT
        !.dataOffset = IF e.centerData THEN [k \in 1..p |-> mean(X[k])] ELSE @,
        !.responsesOffset = IF e.centerData THEN mean(Data[d].y) ELSE @,
        !.dataScale = IF e.scaleData THEN [k \in 1..p |-> stddev(X[k], 0)]
                      ELSE @]

\* CenterScaleData / CenterNormalize: neutral forms first, then the
\* statistics the flags ask for; stddev(data, 0, 1) is norm_type 0 per row.
CenterScaleData(e, d) ==
  LET X == Data[d].X
      p == n_rows(d)
  IN [e EXCEPT
        !.dataOffset = IF e.centerData THEN [k \in 1..p |-> mean(X[k])]
                       ELSE [k \in 1..p |-> Zero],
        !.responsesOffset = IF e.centerData THEN mean(Data[d].y) ELSE Zero,
        !.dataScale = IF e.scaleData THEN [k \in 1..p |-> stddev(X[k], 0)]
                      ELSE [k \in 1..p |-> One]]

\* dataProc.each_col() /= dataScale: a zero scale divides by zero and
\* leaves inf or NaN in the preprocessed matrix
PhiFinite(e) == \A k \in 1..Len(e.dataScale) : e.dataScale[k] # Zero

\* var of the centered responses t = responses - responsesOffset, from the
\* integers n * y - sum (a factor n, hence n * n in the variance)
VarT(d, center, norm_type) ==
  LET y == Data[d].y
      n == Len(y)
      f == IF center THEN n ELSE 1
      t == [j \in 1..n |-> IF center THEN n * y[j] - SumSeq(y) ELSE y[j]]
      v == var(t, norm_type)
  IN Rat(v.num, v.den * f * f)

\* alpha = 1e-6; beta = 1 / (var(t, 1) * 0.1) in BayesianLinearRegression,
\* beta = 1 / (var(t) * 0.1) in BayesianRidge (var(t) is norm_type 0)
InitHyper(e, d) ==
  LET v == VarT(d, e.centerData, IF e.cls = "BLR" THEN 1 ELSE 0)
  IN [e EXCEPT
        !.alpha = Rat(1, AlphaInitDen),
        !.beta = IF v.num = 0 THEN Inf ELSE Rat(BetaInitNum * v.den, v.num)]

----------------------------------------------------------------------------
(* The evidence maximization loop *)

\* crit > tol: false when crit is NaN
GreaterThan(crit, tol) == crit # NaN /\ crit > tol

\* while ((crit > tol) && (i < nIterMax))
LoopGuard(f) == GreaterThan(f.crit, f.tol) /\ f.i < f.nIterMax

\* alpha / beta is exactly 0: beta is inf (the variance of t was 0)
RatioIsZero(e) == e.beta = Inf

\* a hyperparameter that is neither NaN nor inf nor unassigned
IsFinite(x) == x.kind \in {"rat", "alpha", "beta", "gamma"}

\* What one pass computes from the pair (alpha, beta) of e on data set d:
\*  "nan"        phi holds inf or NaN, or alpha or beta is NaN, or
\*               alpha / beta = 0 meets a zero eigenvalue (0 / 0): omega,
\*               gamma, alpha and beta all become NaN;
\*  "saturated"  alpha / beta = 0, no zero eigenvalue and n <= p:
\*               gamma = p, omega fits t exactly, n - gamma <= 0 and
\*               dot(temp, temp) = 0, so beta = 0 / 0;
\*  "unshrunk"   alpha / beta = 0, no zero eigenvalue and n > p: gamma = p,
\*               finite alpha and beta, deltaBeta = -inf + beta;
\*  "regular"    0 < alpha / beta < inf on finite data.
PassKind(e, d) ==
  IF ~PhiFinite(e) \/ e.alpha = NotANumber \/ e.beta = NotANumber THEN "nan"
  ELSE IF RatioIsZero(e)
       THEN IF Det(Gram(PhiInt(d, e.centerData))) = 0 THEN "nan"
            ELSE IF n_cols(d) <= n_rows(d) THEN "saturated"
            ELSE "unshrunk"
  ELSE "regular"

\* One pass of the loop body: omega and gamma from the current pair, then
\* alpha = gamma / dot(omega, omega) and beta = (n - gamma) / dot(temp, temp),
\* assigned whatever gamma, omega and temp are.  BayesianRidge also stores
\* matCovariance, from the pair the pass started with.
LoopBody(e, d) ==
  LET src == Src(d, e)
      v == Ver(e.alpha)
      p == n_rows(d)
      next == Min(v + 1, VerCap)
      kind == PassKind(e, d)
      upd == [e EXCEPT
                !.omega = Sym(IF kind = "nan" THEN "nan" ELSE "omega", src, v, p),
                !.gamma = IF kind = "nan" THEN NotANumber
                          ELSE IF kind = "regular" THEN Sym("gamma", src, v, 0)
                          ELSE Rat(p, 1),
                !.alpha = IF kind = "nan" THEN NotANumber
                          ELSE Sym("alpha", src, next, 0),
                !.beta = IF kind \in {"nan", "saturated"} THEN NotANumber
                         ELSE Sym("beta", src, next, 0)]
  IN IF e.cls = "BR"
     THEN [upd EXCEPT !.matCovariance = Sym("cov", src, v, p)]
     ELSE upd

\* after the loop BayesianLinearRegression computes matCovariance =
\* eigVec * diagmat(1 / (beta * eigVal + alpha)) * eigVecInv from the final
\* pair, whatever it is: NaN or inf in the pair leaves no positive definite
\* matrix.  BayesianRidge has nothing left to do.
PostLoop(e, d) ==
  IF e.cls = "BLR"
  THEN [e EXCEPT !.matCovariance =
          Sym(IF PhiFinite(e) /\ IsFinite(e.alpha) /\ IsFinite(e.beta)
              THEN "cov" ELSE "cov_degenerate",
              Src(d, e), Ver(e.alpha), n_rows(d))]
  ELSE e

\* deltaAlpha / alpha and deltaBeta / beta of a regular pass, in
\* thousandths: no change; alpha up from 1e-6 and beta halved (the first
\* pass of BayesianRidge on the first data set); alpha up from 1e-6 and
\* beta quartered (the first pass of BayesianLinearRegression on it)
RelChanges == {<<0, 0>>, <<1000, -1000>>, <<1000, -3000>>}

\* crit = std::abs(deltaAlpha / alpha + deltaBeta / beta)
Crit(relAlpha, relBeta) == Abs(relAlpha + relBeta)

\* the relative changes and crit a pass of the given kind can end with
PassEnds(kind, rels) ==
  IF kind \in {"nan", "saturated"} THEN {[rel |-> NotANumber, crit |-> NaN]}
  ELSE IF kind = "unshrunk" THEN {[rel |-> Inf, crit |-> InfCrit]}
  ELSE {[rel |-> [kind |-> "rel", alpha |-> r[1], beta |-> r[2]],
         crit |-> Crit(r[1], r[2])] : r \in rels}

----------------------------------------------------------------------------
(* Prediction *)

\* Predict(points, predictions) on q-row points: each_col() - dataOffset,
\* each_col() / dataScale and omega.t() * X need q rows in all three
PredictShapesOk(e, q) ==
  Len(e.dataOffset) = q /\ Len(e.dataScale) = q /\ e.omega.dim = q

\* Predict(points, predictions, std) also multiplies by matCovariance
PredictStdShapesOk(e, q) == PredictShapesOk(e, q) /\ e.matCovariance.dim = q

\* A size mismatch is caught by Armadillo's checks (std::logic_error) when
\* they are compiled in and is an out-of-bounds read otherwise, after which
\* the call returns whatever was read.
ShapeOutcomes(ok) == IF ok THEN {"ok"} ELSE {"logic_error", "undefined"}

\* the query matrix with q rows: column j is the point <<j + 1, ..., j + q>>
Query(q) == [j \in 1..MaxQueryCols |-> [k \in 1..q |-> j + k]]

\* (x - dataOffset) / dataScale for one column x of the query matrix
ScaledPoint(e, x) == [x |-> x, offset |-> e.dataOffset, scale |-> e.dataScale]

\* one entry of omega.t() * X + responsesOffset
PredictionAt(e, x) ==
  [kind |-> "prediction", omega |-> e.omega, at |-> ScaledPoint(e, x),
   responsesOffset |-> e.responsesOffset]

\* Variance(): the noise variance 1 / beta
Variance(e) == [kind |-> "variance", beta |-> e.beta]

\* one entry of sqrt(Variance() + x.t() * matCovariance * x)
StdAt(e, x) ==
  [kind |-> "std", variance |-> Variance(e), cov |-> e.matCovariance,
   at |-> ScaledPoint(e, x)]

\* Predict(points, predictions): one prediction per column of points
PredictMatrix(e, points) ==
  [j \in 1..Len(points) |-> PredictionAt(e, points[j])]

\* Predict(points, predictions, std): predictions and, column by column,
\* their standard deviations
PredictStdMatrix(e, points) ==
  [predictions |-> PredictMatrix(e, points),
   std |-> [j \in 1..Len(points) |-> StdAt(e, points[j])]]

\* A single-point Predict that reads the stored weights without undoing the
\* response centering.  C12 does not hold of it.
PredictPointNoOffset(e, point) ==
  [PredictionAt(e, point) EXCEPT !.responsesOffset = Zero]

\* Predict(point, prediction): the point becomes a one-column matrix, the
\* matrix Predict runs on it, and its entry 0 is the prediction
PredictPoint(e, point) == PredictMatrix(e, <<point>>)[1]

\* Predict(point, prediction, std): the same through the matrix variant
\* with std; entry 0 of each vector
PredictPointStd(e, point) ==
  LET both == PredictStdMatrix(e, <<point>>)
  IN [prediction |-> both.predictions[1], std |-> both.std[1]]

----------------------------------------------------------------------------
(* Calls *)

IdleFrame == [pc |-> "idle"]
\* frame.passes counts the passes of the loop that i has counted; it stops
\* one beyond the range of i.
PassCap == UShortMod + 1

\* the value an unsigned short holds after it is assigned the size x
UShort(x) == x % UShortMod

\* the feature count Train sizes the prior matrix with: BayesianRidge keeps
\* data.n_rows in an unsigned short p, BayesianLinearRegression takes the
\* sizes of the Armadillo objects themselves
FeatureCount(e, d) == IF e.cls = "BR" THEN UShort(n_rows(d)) ELSE n_rows(d)

\* the sample count of beta = (n - gamma) / dot(temp, temp): BayesianRidge
\* keeps data.n_cols in an unsigned short n, BayesianLinearRegression uses
\* data.n_cols
SampleCount(e, d) == IF e.cls = "BR" THEN UShort(n_cols(d)) ELSE n_cols(d)
NoRet == [op |-> "none"]

\* Log::Fatal << ... : raises the fatal error (std::runtime_error)
FatalOutcome == "fatal"

\* values a constructor is given
TolVals == {0, 1, CritInit}           \* 0, 1e-3, 1.0 in thousandths
NIterMaxVals == 0..MaxIter
BLRConfigs ==
  {BayesianLinearRegression(c, s, m, t) :
     c \in BOOLEAN, s \in BOOLEAN, m \in NIterMaxVals, t \in TolVals}
BRConfigs == {BayesianRidge(c, s) : c \in BOOLEAN, s \in BOOLEAN}

\* the constructors
Construct(o, e) ==
  /\ frame.pc = "idle"
  /\ UNCHANGED readers
  /\ ~est[o].live
  /\ est' = [est EXCEPT ![o] = e]
  /\ trained' = [trained EXCEPT ![o] = FALSE]
  /\ ret' = [op |-> "Construct", self |-> o, outcome |-> "ok"]
  /\ UNCHANGED <<frame, shadow>>

\* The values of the test eigval[0] == 0 in BayesianRidge::Train.  After a
\* failed eig_sym eigval is empty and eigval[0] reads out of bounds; on a
\* matrix with inf or NaN the eigenvalues are NaN.
SingularTest(e, d, eigOk) ==
  IF e.cls = "BLR" THEN {FALSE}
  ELSE IF ~eigOk THEN BOOLEAN
  ELSE IF ~PhiFinite(e) THEN {FALSE}
  ELSE SmallestEigIsZero(d, e.centerData)

\* How the part of Train before the loop ends, with e already preprocessed:
\* "fatal" (BayesianLinearRegression, eig_sym failed), "singular"
\* (BayesianRidge, return -1) or "loop".
BeforeLoop(e, eigOk, zero) ==
  IF e.cls = "BLR" /\ ~eigOk THEN FatalOutcome
  ELSE IF e.cls = "BR" /\ zero THEN "singular"
  ELSE "loop"

TrainRet(o, d, outcome, val, eigOk, fin, entered, i) ==
  [op |-> "Train", self |-> o, d |-> d, outcome |-> outcome, val |-> val,
   eigOk |-> eigOk, phiFinite |-> fin, entered |-> entered, i |-> i]

\* Train up to the loop: preprocessing, eigendecomposition, initial values
TrainBegin(o, d) ==
  /\ frame.pc = "idle"
  /\ UNCHANGED readers
  /\ est[o].live
  /\ \E eigOk \in BOOLEAN :
       LET e1 == CenterScaleData(est[o], d)
           s1 == CenterScaleData(FreshOf(est[o]), d)
           fin == PhiFinite(e1)
       IN \E zero \in SingularTest(e1, d, eigOk) :
            LET how == BeforeLoop(e1, eigOk, zero)
            IN IF how = "loop"
               THEN /\ est' = [est EXCEPT ![o] = InitHyper(e1, d)]
                    /\ shadow' = InitHyper(s1, d)
                    /\ frame' = [pc |-> "loop", self |-> o, d |-> d, i |-> 0,
                                 passes |-> 0,
                                 p |-> FeatureCount(e1, d),
                                 n |-> SampleCount(e1, d),
                                 crit |-> CritInit, rel |-> NotANumber,
                                 nIterMax |-> IF e1.cls = "BLR" THEN e1.nIterMax
                                              ELSE NIterMaxBR,
                                 tol |-> IF e1.cls = "BLR" THEN e1.tol ELSE TolBR,
                                 eigOk |-> eigOk, phiFinite |-> fin]
                    /\ ret' = NoRet
                    /\ UNCHANGED trained
               ELSE /\ est' = [est EXCEPT ![o] = e1]
                    /\ shadow' = s1
                    /\ ret' = IF how = "singular"
                              THEN TrainRet(o, d, "ok", "-1", eigOk, fin, FALSE, 0)
                              ELSE TrainRet(o, d, how, "none", eigOk, fin, FALSE, 0)
                    /\ UNCHANGED <<frame, trained>>

\* One pass of the loop; rels are the relative changes a regular pass can
\* end with.  inv_sympd in BayesianRidge throws std::runtime_error on a
\* matrix that is not finite (phi with inf or NaN, or beta = inf).
TrainIter(rels) ==
  /\ frame.pc = "loop"
  /\ UNCHANGED readers
  /\ LoopGuard(frame)
  /\ LET o == frame.self
         e == est[o]
     IN IF e.cls = "BR" /\ PassKind(e, frame.d) # "regular"
        THEN /\ frame' = IdleFrame
             /\ ret' = TrainRet(o, frame.d, "runtime_error", "none",
                                frame.eigOk, frame.phiFinite, TRUE, frame.i)
             /\ UNCHANGED <<est, shadow, trained>>
        ELSE /\ est' = [est EXCEPT ![o] = LoopBody(e, frame.d)]
             /\ shadow' = LoopBody(shadow, frame.d)
             /\ \E end \in PassEnds(PassKind(e, frame.d), rels) :
                  frame' = [frame EXCEPT !.i = (frame.i + 1) % UShortMod,
                                         !.passes = Min(@ + 1, PassCap),
                                         !.crit = end.crit,
                                         !.rel = end.rel]
             /\ UNCHANGED <<ret, trained>>

\* The value a Train call returns from return RMSE(data, responses):
\* BayesianLinearRegression::Train returns double; BayesianRidge::Train
\* returns float, so the double that Rmse computed is narrowed to float.
ReturnedRmse(e) == IF e.cls = "BR" THEN "rmse_float" ELSE "rmse"

\* The loop has stopped: the covariance, then return RMSE(data, responses)
TrainEnd ==
  /\ frame.pc = "loop"
  /\ UNCHANGED readers
  /\ ~LoopGuard(frame)
  /\ LET o == frame.self
         e == PostLoop(est[o], frame.d)
     IN /\ est' = [est EXCEPT ![o] = e]
        /\ shadow' = PostLoop(shadow, frame.d)
        /\ frame' = IdleFrame
        /\ \E out \in ShapeOutcomes(PredictShapesOk(e, n_rows(frame.d))) :
             /\ ret' = TrainRet(o, frame.d, out,
                                IF out = "ok" THEN ReturnedRmse(e)
                                ELSE IF out = "undefined" THEN "garbage"
                                ELSE "none",
                                frame.eigOk, frame.phiFinite, TRUE, frame.i)
             /\ trained' = [trained EXCEPT ![o] = @ \/ out = "ok"]

\* what a call that ended as out hands back: val when it ran as written,
\* nothing after an exception, arbitrary values after an out-of-bounds read
Returned(out, val) ==
  IF out = "ok" THEN val ELSE IF out = "undefined" THEN "garbage" ELSE "none"

\* Predict(points, predictions) with a q-row query matrix
Predict(o, q) ==
  /\ frame.pc = "idle"
  /\ UNCHANGED readers
  /\ est[o].live
  /\ \E out \in ShapeOutcomes(PredictShapesOk(est[o], q)) :
       ret' = [op |-> "Predict", self |-> o, q |-> q, outcome |-> out,
               val |-> Returned(out, PredictMatrix(est[o], Query(q)))]
  /\ UNCHANGED <<est, frame, shadow, trained>>

\* Predict(points, predictions, std)
PredictStd(o, q) ==
  /\ frame.pc = "idle"
  /\ UNCHANGED readers
  /\ est[o].live
  /\ \E out \in ShapeOutcomes(PredictStdShapesOk(est[o], q)) :
       ret' = [op |-> "PredictStd", self |-> o, q |-> q, outcome |-> out,
               val |-> Returned(out, PredictStdMatrix(est[o], Query(q)))]
  /\ UNCHANGED <<est, frame, shadow, trained>>

\* BayesianRidge::Predict(point, prediction) on column j of Query(q)
PredictOne(o, q, j) ==
  /\ frame.pc = "idle"
  /\ UNCHANGED readers
  /\ est[o].live /\ est[o].cls = "BR"
  /\ \E out \in ShapeOutcomes(PredictShapesOk(est[o], q)) :
       ret' = [op |-> "PredictOne", self |-> o, q |-> q, col |-> j,
               outcome |-> out,
               val |-> Returned(out, PredictPoint(est[o], Query(q)[j]))]
  /\ UNCHANGED <<est, frame, shadow, trained>>

\* BayesianRidge::Predict(point, prediction, std) on column j of Query(q)
PredictOneStd(o, q, j) ==
  /\ frame.pc = "idle"
  /\ UNCHANGED readers
  /\ est[o].live /\ est[o].cls = "BR"
  /\ \E out \in ShapeOutcomes(PredictStdShapesOk(est[o], q)) :
       ret' = [op |-> "PredictOneStd", self |-> o, q |-> q, col |-> j,
               outcome |-> out,
               val |-> Returned(out, PredictPointStd(est[o], Query(q)[j]))]
  /\ UNCHANGED <<est, frame, shadow, trained>>

\* RMSE(data, responses)
RMSE(o, d) ==
  /\ frame.pc = "idle"
  /\ UNCHANGED readers
  /\ est[o].live
  /\ \E out \in ShapeOutcomes(PredictShapesOk(est[o], n_rows(d))) :
       ret' = [op |-> "RMSE", self |-> o, q |-> n_rows(d), outcome |-> out]
  /\ UNCHANGED <<est, frame, shadow, trained>>

----------------------------------------------------------------------------
(* Concurrent Predict calls: each thread runs the statements of Predict one
   at a time on its own locals, reading the members of the estimator *)

Readers == {"r1", "r2"}
ReadOps == {"Predict", "PredictStd", "RMSE"}

IdleReader == [pc |-> "idle"]

\* no Predict call is in progress
NoReader == \A r \in Readers : readers[r].pc = "idle"

\* A Predict that keeps the centered response in the object: it zeroes
\* responsesOffset once it has added it.  C15 does not hold of it.
AfterPredictClearsOffset(e) == [e EXCEPT !.responsesOffset = Zero]

\* The estimator after a statement of Predict, Predict with std or RMSE:
\* they are const member functions and assign no member.
AfterPredict(e) == e

\* RMSE(data, responses): sqrt(mean(square(responses - predictions)))
RmseOf(e, points) == [kind |-> "rmse", of |-> PredictMatrix(e, points)]

\* what the call op returns for the query matrix points when it runs alone
ResultAlone(e, op, points) ==
  IF op = "Predict" THEN PredictMatrix(e, points)
  ELSE IF op = "PredictStd" THEN PredictStdMatrix(e, points)
  ELSE RmseOf(e, points)

\* entry: arma::mat X = points
ReadBegin(r, o, op, q) ==
  /\ frame.pc = "idle"
  /\ readers[r].pc = "idle"
  /\ est[o].live /\ trained[o]
  /\ readers' = [readers EXCEPT ![r] =
       [pc |-> "copied", self |-> o, op |-> op, q |-> q,
        X |-> [j \in 1..MaxQueryCols |-> [x |-> Query(q)[j]]],
        predictions |-> <<>>, std |-> <<>>, outcome |-> "ok"]]
  /\ UNCHANGED <<est, frame, ret, shadow, trained>>

\* X.each_col() -= dataOffset; a size mismatch ends the call here
ReadCenter(r) ==
  /\ readers[r].pc = "copied"
  /\ LET rd == readers[r]  e == est[rd.self]
     IN /\ \E out \in ShapeOutcomes(IF rd.op = "PredictStd"
                                    THEN PredictStdShapesOk(e, rd.q)
                                    ELSE PredictShapesOk(e, rd.q)) :
             readers' = [readers EXCEPT ![r] =
               IF out = "ok"
               THEN [rd EXCEPT !.pc = "centered",
                      !.X = [j \in 1..Len(rd.X) |->
                               [x |-> rd.X[j].x, offset |-> e.dataOffset]]]
               ELSE [rd EXCEPT !.pc = "done", !.outcome = out]]
        /\ est' = [est EXCEPT ![rd.self] = AfterPredict(e)]
  /\ UNCHANGED <<frame, ret, shadow, trained>>

\* X.each_col() /= dataScale
ReadScale(r) ==
  /\ readers[r].pc = "centered"
  /\ LET rd == readers[r]  e == est[rd.self]
     IN /\ readers' = [readers EXCEPT ![r] =
             [rd EXCEPT !.pc = "scaled",
               !.X = [j \in 1..Len(rd.X) |->
                        [x |-> rd.X[j].x, offset |-> rd.X[j].offset,
                         scale |-> e.dataScale]]]]
        /\ est' = [est EXCEPT ![rd.self] = AfterPredict(e)]
  /\ UNCHANGED <<frame, ret, shadow, trained>>

\* predictions = omega.t() * X + responsesOffset
ReadMultiply(r) ==
  /\ readers[r].pc = "scaled"
  /\ LET rd == readers[r]  e == est[rd.self]
     IN /\ readers' = [readers EXCEPT ![r] =
             [rd EXCEPT !.pc = IF rd.op = "Predict" THEN "done" ELSE "multiplied",
               !.predictions = [j \in 1..Len(rd.X) |->
                  [kind |-> "prediction", omega |-> e.omega, at |-> rd.X[j],
                   responsesOffset |-> e.responsesOffset]]]]
        /\ est' = [est EXCEPT ![rd.self] = AfterPredict(e)]
  /\ UNCHANGED <<frame, ret, shadow, trained>>

\* the tail of the call: the std of each prediction from Variance() and
\* matCovariance, or the root mean squared error of the predictions
ReadTail(r) ==
  /\ readers[r].pc = "multiplied"
  /\ LET rd == readers[r]  e == est[rd.self]
     IN /\ readers' = [readers EXCEPT ![r] =
             [rd EXCEPT !.pc = "done",
               !.std = IF rd.op = "PredictStd"
                       THEN [j \in 1..Len(rd.X) |->
                               [kind |-> "std", variance |-> Variance(e),
                                cov |-> e.matCovariance, at |-> rd.X[j]]]
                       ELSE <<>>]]
        /\ est' = [est EXCEPT ![rd.self] = AfterPredict(e)]
  /\ UNCHANGED <<frame, ret, shadow, trained>>

\* what the finished call of thread r hands back
ReadResult(rd) ==
  IF rd.op = "Predict" THEN rd.predictions
  ELSE IF rd.op = "PredictStd"
       THEN [predictions |-> rd.predictions, std |-> rd.std]
  ELSE [kind |-> "rmse", of |-> rd.predictions]

\* the call returns to its caller
ReadReturn(r) ==
  /\ readers[r].pc = "done"
  /\ readers' = [readers EXCEPT ![r] = IdleReader]
  /\ UNCHANGED <<est, frame, ret, shadow, trained>>

----------------------------------------------------------------------------
(* Copy and move of BayesianRidge *)

\* A clearing that leaves the weights and their covariance in the
\* moved-from object.  C10 does not hold of it.
ClearedKeepsWeights(e) ==
  [e EXCEPT !.centerData = FALSE, !.scaleData = FALSE,
            !.dataOffset = <<>>, !.dataScale = <<>>,
            !.responsesOffset = Zero,
            !.alpha = Zero, !.gamma = Zero, !.beta = Zero]

\* "Clear the other object": both flags false, the vectors and matrices
\* reset, the doubles 0.0
Cleared(e) ==
  [e EXCEPT !.centerData = FALSE, !.scaleData = FALSE,
            !.dataOffset = <<>>, !.dataScale = <<>>,
            !.responsesOffset = Zero,
            !.alpha = Zero, !.gamma = Zero, !.beta = Zero,
            !.omega = EmptyVec, !.matCovariance = EmptyVec]

\* BayesianRidge(const BayesianRidge& other)
CopyConstruct(b, a) ==
  /\ frame.pc = "idle"
  /\ UNCHANGED readers
  /\ ~est[b].live /\ est[a].live /\ est[a].cls = "BR"
  /\ est' = [est EXCEPT ![b] = est[a]]
  /\ trained' = [trained EXCEPT ![b] = trained[a]]
  /\ ret' = [op |-> "CopyConstruct", self |-> b, other |-> a, outcome |-> "ok"]
  /\ UNCHANGED <<frame, shadow>>

\* BayesianRidge(BayesianRidge&& other): this is a new object, so
\* this != &other and other is cleared
MoveConstruct(b, a) ==
  /\ frame.pc = "idle"
  /\ UNCHANGED readers
  /\ ~est[b].live /\ est[a].live /\ est[a].cls = "BR"
  /\ est' = [est EXCEPT ![b] = est[a], ![a] = Cleared(est[a])]
  /\ trained' = [trained EXCEPT ![b] = trained[a], ![a] = FALSE]
  /\ ret' = [op |-> "MoveConstruct", self |-> b, other |-> a, outcome |-> "ok"]
  /\ UNCHANGED <<frame, shadow>>

\* operator=(const BayesianRidge& other)
CopyAssign(b, a) ==
  /\ frame.pc = "idle"
  /\ UNCHANGED readers
  /\ est[b].live /\ est[a].live /\ est[a].cls = "BR" /\ est[b].cls = "BR"
  /\ est' = IF b = a THEN est ELSE [est EXCEPT ![b] = est[a]]
  /\ trained' = [trained EXCEPT ![b] = trained[a]]
  /\ ret' = [op |-> "CopyAssign", self |-> b, other |-> a, outcome |-> "ok"]
  /\ UNCHANGED <<frame, shadow>>

\* operator=(BayesianRidge&& other)
MoveAssign(b, a) ==
  /\ frame.pc = "idle"
  /\ UNCHANGED readers
  /\ est[b].live /\ est[a].live /\ est[a].cls = "BR" /\ est[b].cls = "BR"
  /\ est' = IF b = a THEN est
            ELSE [est EXCEPT ![b] = est[a], ![a] = Cleared(est[a])]
  /\ trained' = IF b = a THEN trained
                ELSE [trained EXCEPT ![b] = trained[a], ![a] = FALSE]
  /\ ret' = [op |-> "MoveAssign", self |-> b, other |-> a, outcome |-> "ok"]
  /\ UNCHANGED <<frame, shadow>>

----------------------------------------------------------------------------
Init ==
  /\ est = [o \in Objects |-> NotConstructed]
  /\ frame = IdleFrame
  /\ ret = NoRet
  /\ shadow = NotConstructed
  /\ trained = [o \in Objects |-> FALSE]
  /\ readers = [r \in Readers |-> IdleReader]

\* one estimator of either class, trained and queried
Next ==
  \/ \E e \in BLRConfigs \cup BRConfigs : Construct("A", e)
  \/ \E d \in DataIds : TrainBegin("A", d)
  \/ TrainIter(RelChanges)
  \/ TrainEnd
  \/ \E q \in 0..MaxQueryRows : Predict("A", q)
  \/ \E q \in 0..MaxQueryRows : PredictStd("A", q)
  \/ \E d \in DataIds : RMSE("A", d)

Spec == Init /\ [][Next]_vars

\* one BayesianRidge, trained and queried with matrices and single points
NextPredict ==
  \/ \E e \in BRConfigs : Construct("A", e)
  \/ \E d \in DataIds : TrainBegin("A", d)
  \/ TrainIter(RelChanges)
  \/ TrainEnd
  \/ \E q \in 0..MaxQueryRows : Predict("A", q)
  \/ \E q \in 0..MaxQueryRows : PredictStd("A", q)
  \/ \E q \in 0..MaxQueryRows, j \in 1..MaxQueryCols : PredictOne("A", q, j)
  \/ \E q \in 0..MaxQueryRows, j \in 1..MaxQueryCols : PredictOneStd("A", q, j)

PredictSpec == Init /\ [][NextPredict]_vars

\* One estimator of either class, trained while no Predict call runs and then
\* queried by two threads whose statements interleave in any order.
ReadConfigs ==
  {BayesianLinearRegression(TRUE, TRUE, MaxIter, 1), BayesianRidge(TRUE, FALSE)}
ReadData == {1, 2}
NextRead ==
  \/ NoReader /\ \E e \in ReadConfigs : Construct("A", e)
  \/ NoReader /\ \E d \in ReadData : TrainBegin("A", d)
  \/ TrainIter(RelChanges)
  \/ TrainEnd
  \/ \E r \in Readers, op \in ReadOps, q \in 1..MaxQueryRows :
       ReadBegin(r, "A", op, q)
  \/ \E r \in Readers : ReadCenter(r)
  \/ \E r \in Readers : ReadScale(r)
  \/ \E r \in Readers : ReadMultiply(r)
  \/ \E r \in Readers : ReadTail(r)
  \/ \E r \in Readers : ReadReturn(r)

ReadSpec == Init /\ [][NextRead]_vars

\* BayesianRidge objects that are trained, copied and moved
MoveData == {1, 3}
NextMove ==
  \/ \E o \in Objects, e \in BRConfigs : Construct(o, e)
  \/ \E d \in MoveData : TrainBegin("A", d)
  \/ TrainIter(RelChanges)
  \/ TrainEnd
  \/ \E a, b \in Objects : CopyConstruct(b, a)
  \/ \E a, b \in Objects : MoveConstruct(b, a)
  \/ \E a, b \in Objects : CopyAssign(b, a)
  \/ \E a, b \in Objects : MoveAssign(b, a)

MoveSpec == Init /\ [][NextMove]_vars

\* One estimator, trained until a Train call returns its RMSE; nIterMax may
\* exceed the range of the loop counter, and crit either reaches 0 or stays
\* above tol.  Train is a synchronous call: a loop pass that can run does
\* run, and the code after the loop runs once the loop has stopped.
WideConfigs ==
  {BayesianLinearRegression(FALSE, FALSE, m, 1) : m \in {MaxIter, UShortMod}}
    \cup {BayesianRidge(FALSE, FALSE)}
WideRels == {<<0, 0>>, <<1000, -3000>>}
NextWide ==
  \/ \E e \in WideConfigs : Construct("A", e)
  \/ ~trained["A"] /\ TrainBegin("A", 1)
  \/ TrainIter(WideRels)
  \/ TrainEnd

WideSpec ==
  Init /\ [][NextWide]_vars /\ WF_vars(TrainIter(WideRels)) /\ WF_vars(TrainEnd)

----------------------------------------------------------------------------
(* Properties *)

\* the last completed call is a Train call
TrainReturned == ret.op = "Train"

\* the configuration the specification calls valid: maxIter >= 1, tol > 0
ValidConfig(e) == e.cls = "BLR" => (e.nIterMax >= 1 /\ e.tol > 0)

\* some feature of d is constant across the samples
ConstantFeature(d) == \E k \in 1..n_rows(d) : stddev(Data[d].X[k], 0) = Zero

\* the Gram matrix of the preprocessed data is singular
Colinear(d, center) == Det(Gram(PhiInt(d, center))) = 0

\* every loop quantity of e was computed from data set d under e's flags
PosteriorFrom(e, d) ==
  /\ e.alpha.kind = "alpha" /\ e.alpha.src = Src(d, e)
  /\ e.beta.kind = "beta" /\ e.beta.src = Src(d, e)
  /\ e.gamma.kind = "gamma" /\ e.gamma.src = Src(d, e)
  /\ e.omega.kind = "omega" /\ e.omega.src = Src(d, e)
  /\ e.matCovariance.kind = "cov" /\ e.matCovariance.src = Src(d, e)

\* C1: Train always terminates, because the loop stops once the iteration
\* count reaches nIterMax: a Train call never makes more than nIterMax passes
\* of the loop, whatever values crit takes.
C1_LoopTerminates ==
  frame.pc = "loop" => frame.passes <= frame.nIterMax

\* A Train call that has reached the loop returns.
TrainLoopReturns == (frame.pc = "loop") ~> (frame.pc = "idle")

\* C2: a Train call that fails leaves the estimator untrained: every fitted
\* member is as it is after construction, nothing of the failed call or of
\* an earlier fit remains.
C2_FailedTrainLeavesUntrained ==
  (TrainReturned /\ ret.outcome # "ok")
    => Fitted(est[ret.self]) = Fitted(FreshOf(est[ret.self]))

\* C3: with a valid configuration, the fitted state after a Train call
\* (on finite data, with a successful eigendecomposition) is that of a newly
\* constructed estimator after the same call, whatever the estimator held
\* before.
C3_TrainOverwritesEverything ==
  (/\ TrainReturned /\ ret.outcome = "ok"
   /\ ValidConfig(est[ret.self])
   /\ ret.eigOk /\ ret.phiFinite)
    => Fitted(est[ret.self]) = Fitted(shadow)

\* C4: construction rejects maxIter < 1 and tol <= 0, so every estimator
\* that exists, and every estimator inside Train, has a valid configuration.
C4_ConstructionValidates ==
  /\ \A o \in Objects : est[o].live => ValidConfig(est[o])
  /\ frame.pc = "loop" => ValidConfig(est[frame.self])

\* C5: after any Train call on p-row data, centerData = false gives a zero
\* dataOffset of length p and responsesOffset 0, and scaleData = false
\* gives an all-ones dataScale of length p.
C5_NeutralPreprocessing ==
  TrainReturned =>
    LET e == est[ret.self]
        p == n_rows(ret.d)
    IN /\ ~e.centerData =>
            (e.dataOffset = [k \in 1..p |-> Zero] /\ e.responsesOffset = Zero)
       /\ ~e.scaleData => e.dataScale = [k \in 1..p |-> One]

\* C5 witness: a Train call on an estimator with both flags off that still
\* holds the weights of an earlier fit on data with another number of rows
C5_Witness ==
  /\ TrainReturned
  /\ ~est[ret.self].centerData /\ ~est[ret.self].scaleData
  /\ est[ret.self].omega.kind = "omega"
  /\ est[ret.self].omega.dim # n_rows(ret.d)
  /\ Len(est[ret.self].dataOffset) = n_rows(ret.d)

\* C6: with scaleData = true and a constant feature, Train fails with a
\* degenerate-data error, and the preprocessed matrix is never computed
\* with a zero divisor.
C6_ConstantFeatureIsReported ==
  /\ frame.pc = "loop" => frame.phiFinite
  /\ (TrainReturned /\ est[ret.self].scaleData /\ ConstantFeature(ret.d))
       => (ret.outcome = "degenerate_data" /\ ret.phiFinite)

\* C7: Predict, PredictWithStd and RMSE on an estimator that has not
\* completed a successful Train raise the untrained error and return no
\* prediction.
C7_UntrainedIsAnError ==
  (ret.op \in {"Predict", "PredictStd", "RMSE"} /\ ~trained[ret.self])
    => ret.outcome = "untrained_error"

\* C8: Train on colinear data (singular Gram matrix) runs the loop to its
\* normal stop, stores a complete posterior state and returns the RMSE.
C8_ColinearTrainCompletes ==
  (/\ TrainReturned
   /\ ValidConfig(est[ret.self])
   /\ ret.eigOk /\ ret.phiFinite
   /\ Colinear(ret.d, est[ret.self].centerData))
    => (/\ ret.entered
        /\ ret.outcome = "ok" /\ ret.val \in {"rmse", "rmse_float"}
        /\ PosteriorFrom(est[ret.self], ret.d))

\* C9: when the eigendecomposition fails, Train fails with the numerical
\* failure error and the loop is not entered.
C9_EigFailureStopsTrain ==
  /\ frame.pc = "loop" => frame.eigOk
  /\ (TrainReturned /\ ~ret.eigOk)
       => (ret.outcome = FatalOutcome /\ ~ret.entered)

\* C11: a Train call that returns normally returns the training RMSE,
\* sqrt(mean((y - Predict(X))^2)) of the state it just fitted, a double that
\* is never negative.
C11_TrainReturnsRmse ==
  (TrainReturned /\ ret.outcome = "ok") => ret.val = "rmse"

\* C12: on a trained estimator the single-point Predict of column j of a
\* query matrix returns entry j of the matrix Predict, and the single-point
\* Predict with std returns entry j of the predictions and of the standard
\* deviations of the matrix Predict with std.
C12_SinglePointAgreesWithMatrix ==
  (ret.op \in {"PredictOne", "PredictOneStd"} /\ trained[ret.self]
     /\ ret.outcome = "ok") =>
    LET e == est[ret.self]
        X == Query(ret.q)
    IN IF ret.op = "PredictOne"
       THEN ret.val = PredictMatrix(e, X)[ret.col]
       ELSE /\ ret.val.prediction = PredictStdMatrix(e, X).predictions[ret.col]
            /\ ret.val.std = PredictStdMatrix(e, X).std[ret.col]

\* C12 witness: the second point of a two-row query, predicted with its
\* standard deviation by a trained BayesianRidge with both flags on
C12_Witness ==
  /\ ret.op = "PredictOneStd" /\ ret.outcome = "ok"
  /\ ret.q = 2 /\ ret.col = 2
  /\ trained[ret.self]
  /\ est[ret.self].centerData /\ est[ret.self].scaleData
  /\ ret.val.std.cov.kind = "cov"

\* x > 0 as a comparison of doubles: true of a positive number and of inf,
\* false of NaN; the alpha and beta of a regular pass are positive
Positive(x) ==
  \/ x.kind = "rat" /\ x.num > 0
  \/ x.kind \in {"alpha", "beta", "inf"}

\* the last call is a Train call that returned the RMSE
TrainReturnedRmse ==
  TrainReturned /\ ret.outcome = "ok" /\ ret.val \in {"rmse", "rmse_float"}

\* C13: after every Train call that returns normally alpha > 0, beta > 0
\* and matCovariance is symmetric positive definite, also for n <= p.
C13_HyperparametersPositive ==
  TrainReturnedRmse =>
    /\ Positive(est[ret.self].alpha)
    /\ Positive(est[ret.self].beta)
    /\ est[ret.self].matCovariance.kind = "cov"

\* C14: after every Train call that gets past the eigendecomposition and
\* returns, on p-row data and under a valid configuration, omega has length
\* p, matCovariance is p x p and dataOffset and dataScale have length p.
C14_FittedShapesConsistent ==
  (/\ TrainReturned /\ ret.entered
   /\ ret.outcome \in {"ok", "undefined"}
   /\ ValidConfig(est[ret.self]))
    => LET e == est[ret.self]
           p == n_rows(ret.d)
       IN /\ e.omega.dim = p
          /\ e.matCovariance.dim = p
          /\ Len(e.dataOffset) = p /\ Len(e.dataScale) = p

\* C15: Predict, Predict with std and RMSE are pure reads.  Every statement
\* of a call in progress leaves the configuration, the fitted fields and the
\* trained flag of every estimator unchanged, and however the statements of
\* concurrent calls on a trained estimator interleave, a call that finishes
\* hands back what the same call returns when it runs alone.
C15_PredictIsPureRead ==
  [][(\E r \in Readers : readers'[r] # readers[r])
       => /\ est' = est /\ trained' = trained
          /\ \A r \in Readers :
               (readers'[r].pc = "done" /\ readers'[r].outcome = "ok")
                 => ReadResult(readers'[r])
                      = ResultAlone(est'[readers'[r].self], readers'[r].op,
                                    Query(readers'[r].q))]_vars

\* two calls are in progress at once, one finished with its result and the
\* other between two of its statements
C15_Witness ==
  /\ readers["r1"].pc = "done" /\ readers["r1"].outcome = "ok"
  /\ readers["r1"].op = "PredictStd"
  /\ readers["r2"].pc \in {"centered", "scaled", "multiplied"}

\* C16: a degenerate pass is handled inside the loop.  When a pass finds
\* n - gamma <= 0 (the model is saturated), beta keeps the value it had
\* before the pass, no hyperparameter becomes a non-number, and the loop
\* does not run another pass.
C16_DegeneratePassHandled ==
  [][(/\ frame.pc = "loop" /\ frame'.pc = "loop"
      /\ frame'.passes = frame.passes + 1
      /\ PassKind(est[frame.self], frame.d) = "saturated")
       => /\ est'[frame.self].beta = est[frame.self].beta
          /\ est'[frame.self].alpha # NotANumber
          /\ ~LoopGuard(frame')]_vars

\* e runs with the settings BayesianRidge fixes: 50 passes at most, tol 1e-3
RidgeSettings(e) ==
  e.cls = "BR" \/ (e.nIterMax = NIterMaxBR /\ e.tol = TolBR)

\* the estimator of the other class with the flags of e
Twin(e) == [e EXCEPT !.cls = IF @ = "BR" THEN "BLR" ELSE "BR"]

\* C17: with maxIter = 50 and tol = 1e-3 the two classes run the same
\* algorithm.  On the same input and flags they enter the loop with the same
\* (alpha, beta), and a Train call that returns hands back the value the
\* other class returns.
C17_VariantsAgree ==
  /\ (frame.pc = "loop" /\ frame.passes = 0 /\ RidgeSettings(est[frame.self]))
       => LET e == est[frame.self]
              t == InitHyper(Twin(e), frame.d)
          IN e.alpha = t.alpha /\ e.beta = t.beta
  /\ (TrainReturned /\ ret.outcome = "ok" /\ RidgeSettings(est[ret.self]))
       => ret.val = ReturnedRmse(Twin(est[ret.self]))

\* C18: when the loop of a Train call is entered, alpha is 1e-6 and beta is
\* 1 / (0.1 * v), where v is the variance of the centered responses with
\* the 1/n normalizer.
C18_InitialPrecisions ==
  (frame.pc = "loop" /\ frame.passes = 0)
    => LET e == est[frame.self]
           v == VarT(frame.d, e.centerData, 1)
       IN /\ e.alpha = Rat(1, AlphaInitDen)
          /\ v.num # 0 => e.beta = Rat(BetaInitNum * v.den, v.num)

\* the statistics a Train call has stored, the scale being the square root
\* of the row variance with the normalizer norm_type selects (0: 1/(n-1),
\* 1: 1/n)
StoredStatistics(norm_type) ==
  TrainReturned =>
    LET e == est[ret.self]
        X == Data[ret.d].X
        p == n_rows(ret.d)
    IN /\ e.centerData =>
            /\ e.dataOffset = [k \in 1..p |-> Rat(SumSeq(X[k]), n_cols(ret.d))]
            /\ e.responsesOffset = Rat(SumSeq(Data[ret.d].y), n_cols(ret.d))
       /\ e.scaleData =>
            e.dataScale = [k \in 1..p |-> SqrtRat(var(X[k], norm_type))]

C20_BothHyperparametersConverged ==
  (/\ frame.pc = "loop" /\ frame.passes >= 1
   /\ frame.crit # NaN /\ frame.crit <= frame.tol
   /\ frame.i < frame.nIterMax)
    => /\ frame.rel.kind = "rel"
       /\ Abs(frame.rel.alpha) <= frame.tol
       /\ Abs(frame.rel.beta) <= frame.tol

\* C21: after a Train call that fitted a posterior, everything stored belongs
\* to one (alpha, beta) pair: omega, matCovariance and gamma are computed
\* from the very alpha and beta the object holds.
C21_FittedStateFromOnePair ==
  (TrainReturned /\ ret.outcome = "ok"
     /\ PosteriorFrom(est[ret.self], ret.d))
    => LET e == est[ret.self]
       IN /\ e.beta.ver = e.alpha.ver
          /\ e.omega.ver = e.alpha.ver
          /\ e.gamma.ver = e.alpha.ver
          /\ e.matCovariance.ver = e.alpha.ver

\* C22: the integers of Train are never truncated or wrapped.  While the
\* loop runs, the sample count and the feature count it uses are the numbers
\* of columns and rows of the training matrix, and the counter compared
\* with nIterMax is the number of passes made so far.
C22_IntegersKeepTheirValue ==
  frame.pc = "loop"
    => /\ frame.n = n_cols(frame.d)
       /\ frame.p = n_rows(frame.d)
       /\ frame.i = frame.passes

\* what a move leaves in the moved-from BayesianRidge: empty vectors and
\* matrices, 0.0 in the doubles
MovedFromFitted ==
  [dataOffset |-> <<>>, dataScale |-> <<>>, responsesOffset |-> Zero,
   alpha |-> Zero, beta |-> Zero, gamma |-> Zero,
   omega |-> EmptyVec, matCovariance |-> EmptyVec]

\* a step that moves the trained estimator a into the distinct estimator b
MovesInto(b, a) ==
  a # b /\ trained[a] /\ (MoveConstruct(b, a) \/ MoveAssign(b, a))

====
